---- MODULE Spec2Model ----
(***************************************************************************)
(* JanScribe backend (src/backend/main.py): one request to                 *)
(* POST /process-audio/ followed through the bearer scheme, the auth       *)
(* dependency get_user_from_token and the handler process_audio, together  *)
(* with the store ("summaries" table) that other requests append to.       *)
(*                                                                         *)
(* Texts are sequences of one-character strings, so that concatenation     *)
(* ("".join) and tokenisation (str.split) are computed, not assumed.       *)
(* The request carries a file part (File(...) is required); a request      *)
(* without one never reaches any code of main.py.                          *)
(***************************************************************************)
EXTENDS Integers, Sequences, FiniteSets, TLC

VARIABLES pc, token, file, client_name, user_id, mime_type,
          transcription_response, original_transcript,
          summarization_response, structured_summary,
          insert_result, store, raised, response, calls, others

vars == <<pc, token, file, client_name, user_id, mime_type,
          transcription_response, original_transcript,
          summarization_response, structured_summary,
          insert_result, store, raised, response, calls, others>>

(* ---------------------------- bounds ----------------------------------- *)
\* largest number of content parts in a candidate of an AI response
MaxParts == 2
\* largest number of records other requests insert while this one runs
MaxOther == 1

(* ---------------------------- values ----------------------------------- *)
NULL == <<"NULL">>
S(str) == <<str>>

\* whitespace characters recognised by str.split()
Whitespace == {" ", "\t"}

\* texts a content part can carry
PartTexts == { <<>>, <<"a">>, <<"b", " ">> }
\* texts the direct .text accessor can return
DirectTexts == { <<>>, <<" ">>, <<"a">>, <<"a", "\t", "b">>, <<" ", "a", " ">>,
                 <<"a", " ", "b", " ", "a">> }

PartLists == UNION { [1..n -> PartTexts] : n \in 0..MaxParts }
\* candidates of a response: none, one, or two (the second one fixed)
CandidateLists == { <<>> } \cup { <<p>> : p \in PartLists }
                  \cup { <<p, << <<"a">> >> >> : p \in { <<>>, << <<"b", " ">> >> } }

Users == { "u1", "u2" }
ClientNames == { NULL, S("acme") }
ContentTypes == { NULL, <<>>, S("audio/ogg") }
Filenames == { NULL, <<>>,
               <<"r", ".", "m", "p", "3">>,
               <<"r", ".", "d", "a", "t">>,
               <<".", "m", "p", "3">>,
               <<"m", "p", "3">> }

Tokens == { [kind |-> "missing", user |-> "-"],
            [kind |-> "invalid", user |-> "-"],
            [kind |-> "raises",  user |-> "-"] }
          \cup { [kind |-> "valid", user |-> u] : u \in Users }

(* ------------------------ AI responses --------------------------------- *)
\* kind "direct":   .text returns text
\* kind "no_text":  .text raises ValueError, candidates is what it is
\* kind "text_err": .text raises another exception
\* kind "raised":   generate_content itself raised
\* kind "none":     generate_content not called (yet)
NoResponse == [kind |-> "none", text |-> <<>>, candidates |-> <<>>]
CallRaised == [kind |-> "raised", text |-> <<>>, candidates |-> <<>>]
Responses ==
    { [kind |-> "direct", text |-> t, candidates |-> <<>>] : t \in DirectTexts }
    \cup { [kind |-> "no_text", text |-> <<>>, candidates |-> c] : c \in CandidateLists }
    \cup { [kind |-> "text_err", text |-> <<>>, candidates |-> <<>>] }

(* ------------------------ exceptions ----------------------------------- *)
NoExc == [type |-> "none", status |-> 0, detail |-> <<>>]
HTTPException(status_code, detail) ==
    [type |-> "HTTPException", status |-> status_code, detail |-> detail]
Exception(msg) == [type |-> "Exception", status |-> 0, detail |-> <<msg>>]

NoReply == [status |-> 0, kind |-> "none", detail |-> <<>>, structured_summary |-> <<>>]
ErrorReply(status_code, detail) ==
    [status |-> status_code, kind |-> "detail", detail |-> detail,
     structured_summary |-> <<>>]
OkReply(summary) ==
    [status |-> 200, kind |-> "structured_summary", detail |-> <<>>,
     structured_summary |-> summary]

(* ------------------------ pure functions ------------------------------- *)
\* "".join(part.text for part in parts)
RECURSIVE Join(_)
Join(parts) == IF parts = <<>> THEN <<>> ELSE Head(parts) \o Join(Tail(parts))

\* len(text.split()): the number of maximal runs of non-whitespace characters
SplitLen(text) ==
    Cardinality({ i \in 1..Len(text) :
                    /\ text[i] \notin Whitespace
                    /\ (i = 1 \/ text[i-1] \in Whitespace) })

\* Python truthiness of an optional string
Truthy(x) == x # NULL /\ x # <<>>

\* variant: only the emptiness test, the token count is not looked at
TranscriptRejectedEmptyOnly(text) == ~Truthy(text)

\* not original_transcript or len(original_transcript.split()) < 2
TranscriptRejected(text) == ~Truthy(text) \/ SplitLen(text) < 2

\* variant: the fallback takes the text of the first part only
ExtractTextFirstPart(r, failDetail, errDetail) ==
    CASE r.kind = "direct" -> [exc |-> NoExc, text |-> r.text]
      [] r.kind = "no_text" ->
            IF r.candidates # <<>> /\ r.candidates[1] # <<>>
            THEN [exc |-> NoExc, text |-> r.candidates[1][1]]
            ELSE [exc |-> HTTPException(500, failDetail), text |-> <<>>]
      [] OTHER -> [exc |-> HTTPException(500, errDetail), text |-> <<>>]

\* the try/except around response.text (lines 87-97 and 127-136)
ExtractText(r, failDetail, errDetail) ==
    CASE r.kind = "direct" -> [exc |-> NoExc, text |-> r.text]
      [] r.kind = "no_text" ->
            IF r.candidates # <<>> /\ r.candidates[1] # <<>>
            THEN [exc |-> NoExc, text |-> Join(r.candidates[1])]
            ELSE [exc |-> HTTPException(500, failDetail), text |-> <<>>]
      [] OTHER -> [exc |-> HTTPException(500, errDetail), text |-> <<>>]

TranscriptionFailed == <<"Gemini transcription failed or returned an unexpected format.">>
TranscriptionError == <<"Error extracting transcription: ", "str(e)">>
SummarizationFailed == <<"Gemini summarization failed or returned an unexpected format.">>
SummarizationError == <<"Error extracting summary: ", "str(e)">>
SilentAudio == <<"Audio was silent or could not be transcribed reliably by Gemini.">>

\* posixpath.splitext as used by mimetypes.guess_type: the extension starts
\* at the last dot, unless only dots precede it
SplitExt(name) ==
    LET dots == { i \in 1..Len(name) : name[i] = "." }
    IN  IF dots = {} THEN <<>>
        ELSE LET d == CHOOSE i \in dots : \A j \in dots : j <= i
             IN  IF \E k \in 1..(d-1) : name[k] # "."
                 THEN SubSeq(name, d, Len(name))
                 ELSE <<>>

\* mimetypes.types_map restricted to the extensions used here
TypesMap(ext) ==
    CASE ext = <<".", "m", "p", "3">> -> S("audio/mpeg")
      [] ext = <<".", "w", "e", "b", "m">> -> S("video/webm")
      [] OTHER -> NULL

guess_type(name) == TypesMap(SplitExt(name))

DefaultFilename == <<"a", "u", "d", "i", "o", ".", "w", "e", "b", "m">>
OctetStream == S("application/octet-stream")

\* variant: no default name, an absent filename infers nothing
ResolveMimeTypeNoDefault(f) ==
    IF Truthy(f.content_type) THEN f.content_type
    ELSE LET g == IF Truthy(f.filename) THEN guess_type(f.filename) ELSE NULL
         IN  IF Truthy(g) THEN g ELSE OctetStream

\* lines 65-68
ResolveMimeType(f) ==
    IF Truthy(f.content_type) THEN f.content_type
    ELSE LET g == guess_type(IF Truthy(f.filename) THEN f.filename ELSE DefaultFilename)
         IN  IF Truthy(g) THEN g ELSE OctetStream

\* HTTPBearer() with auto_error on: a request without bearer credentials is
\* rejected before get_user_from_token runs; the status is 403 in FastAPI
\* releases before 0.122 and 401 from 0.122 on
BearerMissingStatus == { 401, 403 }
NotAuthenticated == <<"Not authenticated">>

\* get_user_from_token: the raise inside the try is caught by its own
\* except Exception and re-raised as 401 "Auth error: ..."
get_user_from_token(tok) ==
    CASE tok.kind = "valid"   -> [exc |-> NoExc, user |-> tok.user]
      [] tok.kind = "invalid" ->
            [exc |-> HTTPException(401, <<"Auth error: ", "401: Invalid auth token">>),
             user |-> "-"]
      [] OTHER ->
            [exc |-> HTTPException(401, <<"Auth error: ", "str(e)">>), user |-> "-"]

\* the two except clauses that close process_audio (lines 152-158)
outer_except(e) ==
    IF e.type = "HTTPException"
    THEN ErrorReply(e.status, e.detail)
    ELSE ErrorReply(500, <<"An error occurred: ">> \o e.detail)

\* variant: transcript and summary stored in each other's column
db_data_swapped(u, t, s, c) ==
    [req |-> "this", user_id |-> u, original_transcript |-> s,
     structured_summary |-> t, client_name |-> c]
\* variant: the insert is sent twice
InsertRecordTwice(table, rec) == Append(Append(table, rec), rec)
\* variant: an upsert that overwrites the latest row
InsertUpsert(table, rec) ==
    IF table = <<>> THEN <<rec>> ELSE [table EXCEPT ![Len(table)] = rec]

\* db_data and supabase.table("summaries").insert(db_data).execute()
db_data(u, t, s, c) ==
    [req |-> "this", user_id |-> u, original_transcript |-> t,
     structured_summary |-> s, client_name |-> c]
InsertRecord(table, rec) == Append(table, rec)
OtherRecord ==
    [req |-> "other", user_id |-> "u0", original_transcript |-> <<"b", " ", "b">>,
     structured_summary |-> <<"b">>, client_name |-> NULL]

Call(op, arg) == [op |-> op, arg |-> arg]

(* ------------------------------ Init ----------------------------------- *)
Init ==
    /\ pc = "Received"
    /\ token \in Tokens
    /\ file \in [content_type : ContentTypes, filename : Filenames]
    /\ client_name \in ClientNames
    /\ user_id = "-"
    /\ mime_type = NULL
    /\ transcription_response = NoResponse
    /\ original_transcript = <<>>
    /\ summarization_response = NoResponse
    /\ structured_summary = <<>>
    /\ insert_result = "none"
    /\ store = <<>>
    /\ raised = NoExc
    /\ response = NoReply
    /\ calls = <<>>
    /\ others = 0

(* ----------------------------- actions --------------------------------- *)
\* the handler's try body raised e: the closing except clauses answer
Fail(e) ==
    /\ raised' = e
    /\ response' = outer_except(e)
    /\ pc' = "Errored"

\* Depends(bearer_scheme) and Depends(get_user_from_token), lines 36-47
Authenticate ==
    /\ pc = "Received"
    /\ IF token.kind = "missing"
       THEN /\ \E st \in BearerMissingStatus :
                  response' = ErrorReply(st, NotAuthenticated)
            /\ pc' = "Errored"
            /\ UNCHANGED user_id
       ELSE LET r == get_user_from_token(token)
            IN  IF r.exc # NoExc
                THEN /\ response' = ErrorReply(r.exc.status, r.exc.detail)
                     /\ pc' = "Errored"
                     /\ UNCHANGED user_id
                ELSE /\ user_id' = r.user
                     /\ pc' = "Authenticated"
                     /\ UNCHANGED response
    /\ UNCHANGED <<token, file, client_name, mime_type, transcription_response,
                   original_transcript, summarization_response, structured_summary,
                   insert_result, store, raised, calls, others>>

\* lines 60-84: read the upload, resolve the media type, call the model
Transcribe ==
    /\ pc = "Authenticated"
    /\ \/ \* await file.read() raises
          /\ Fail(Exception("file.read"))
          /\ UNCHANGED <<mime_type, transcription_response, calls>>
       \/ /\ mime_type' = ResolveMimeType(file)
          /\ calls' = Append(calls, Call("transcribe", mime_type'))
          /\ \E r \in Responses \cup { CallRaised } :
                /\ transcription_response' = r
                /\ IF r = CallRaised
                   THEN Fail(Exception("generate_content"))
                   ELSE /\ pc' = "TranscriptionReturned"
                        /\ UNCHANGED <<raised, response>>
    /\ UNCHANGED <<token, file, client_name, user_id, original_transcript,
                   summarization_response, structured_summary, insert_result,
                   store, others>>

\* lines 87-102: extract the transcript and validate it
ExtractTranscript ==
    /\ pc = "TranscriptionReturned"
    /\ LET x == ExtractText(transcription_response, TranscriptionFailed, TranscriptionError)
       IN  IF x.exc # NoExc
           THEN /\ Fail(x.exc)
                /\ UNCHANGED original_transcript
           ELSE /\ original_transcript' = x.text
                /\ IF TranscriptRejected(x.text)
                   THEN Fail(HTTPException(400, SilentAudio))
                   ELSE /\ pc' = "Transcribed"
                        /\ UNCHANGED <<raised, response>>
    /\ UNCHANGED <<token, file, client_name, user_id, mime_type,
                   transcription_response, summarization_response,
                   structured_summary, insert_result, store, calls, others>>

\* lines 107-124: the second call to the model
Summarize ==
    /\ pc = "Transcribed"
    /\ calls' = Append(calls, Call("summarize", original_transcript))
    /\ \E r \in Responses \cup { CallRaised } :
          /\ summarization_response' = r
          /\ IF r = CallRaised
             THEN Fail(Exception("generate_content"))
             ELSE /\ pc' = "SummarizationReturned"
                  /\ UNCHANGED <<raised, response>>
    /\ UNCHANGED <<token, file, client_name, user_id, mime_type,
                   transcription_response, original_transcript,
                   structured_summary, insert_result, store, others>>

\* variant: a summary that cannot be extracted is replaced by the empty text
ExtractSummaryContinue ==
    /\ pc = "SummarizationReturned"
    /\ LET x == ExtractText(summarization_response, SummarizationFailed, SummarizationError)
       IN  /\ structured_summary' = x.text
           /\ pc' = "Summarized"
           /\ UNCHANGED <<raised, response>>
    /\ UNCHANGED <<token, file, client_name, user_id, mime_type,
                   transcription_response, original_transcript,
                   summarization_response, insert_result, store, calls, others>>

\* lines 127-136: extract the summary (no validation)
ExtractSummary ==
    /\ pc = "SummarizationReturned"
    /\ LET x == ExtractText(summarization_response, SummarizationFailed, SummarizationError)
       IN  IF x.exc # NoExc
           THEN /\ Fail(x.exc)
                /\ UNCHANGED structured_summary
           ELSE /\ structured_summary' = x.text
                /\ pc' = "Summarized"
                /\ UNCHANGED <<raised, response>>
    /\ UNCHANGED <<token, file, client_name, user_id, mime_type,
                   transcription_response, original_transcript,
                   summarization_response, insert_result, store, calls, others>>

\* variant: a failing insert is swallowed and the handler goes on
PersistSwallowError ==
    /\ pc = "Summarized"
    /\ calls' = Append(calls, Call("insert", <<>>))
    /\ \/ /\ store' = InsertRecord(store, db_data(user_id, original_transcript,
                                                  structured_summary, client_name))
          /\ insert_result' = "ok"
       \/ /\ insert_result' = "error"
          /\ UNCHANGED store
    /\ pc' = "Persisted"
    /\ UNCHANGED <<raised, response>>
    /\ UNCHANGED <<token, file, client_name, user_id, mime_type,
                   transcription_response, original_transcript,
                   summarization_response, structured_summary, others>>

\* lines 140-146: one insert into "summaries"
Persist ==
    /\ pc = "Summarized"
    /\ calls' = Append(calls, Call("insert", <<>>))
    /\ \/ /\ store' = InsertRecord(store, db_data(user_id, original_transcript,
                                                  structured_summary, client_name))
          /\ insert_result' = "ok"
          /\ pc' = "Persisted"
          /\ UNCHANGED <<raised, response>>
       \/ /\ insert_result' = "error"
          /\ Fail(Exception("insert"))
          /\ UNCHANGED store
    /\ UNCHANGED <<token, file, client_name, user_id, mime_type,
                   transcription_response, original_transcript,
                   summarization_response, structured_summary, others>>

\* line 150
Respond ==
    /\ pc = "Persisted"
    /\ response' = OkReply(structured_summary)
    /\ pc' = "Responded"
    /\ UNCHANGED <<token, file, client_name, user_id, mime_type,
                   transcription_response, original_transcript,
                   summarization_response, structured_summary, insert_result,
                   store, raised, calls, others>>

\* line 146 run by another request: the table is shared
OtherInsert ==
    /\ others < MaxOther
    /\ others' = others + 1
    /\ store' = InsertRecord(store, OtherRecord)
    /\ UNCHANGED <<pc, token, file, client_name, user_id, mime_type,
                   transcription_response, original_transcript,
                   summarization_response, structured_summary, insert_result,
                   raised, response, calls>>

Next ==
    \/ Authenticate
    \/ Transcribe
    \/ ExtractTranscript
    \/ Summarize
    \/ ExtractSummary
    \/ Persist
    \/ Respond
    \/ OtherInsert

Spec == Init /\ [][Next]_vars

(* ===================== properties of the request ======================= *)
Terminal == pc \in { "Responded", "Errored" }

\* the content fragments of a response: the parts of its first candidate
Fragments(r) == IF r.candidates = <<>> THEN <<>> ELSE r.candidates[1]

\* the first n fragments, concatenated in the order returned
RECURSIVE ConcatUpTo(_, _)
ConcatUpTo(parts, n) == IF n = 0 THEN <<>> ELSE ConcatUpTo(parts, n - 1) \o parts[n]
Concat(parts) == ConcatUpTo(parts, Len(parts))

\* whitespace-delimited tokens, counted by a left-to-right scan
RECURSIVE CountTokens(_, _)
CountTokens(text, inToken) ==
    IF text = <<>> THEN 0
    ELSE IF Head(text) \in Whitespace THEN CountTokens(Tail(text), FALSE)
    ELSE (IF inToken THEN 0 ELSE 1) + CountTokens(Tail(text), TRUE)
NumTokens(text) == CountTokens(text, FALSE)

HasText(r) == r.kind = "direct" \/ (r.kind = "no_text" /\ Fragments(r) # <<>>)
TextOf(r) == IF r.kind = "direct" THEN r.text ELSE Concat(Fragments(r))

IsPrefix(a, b) == Len(a) <= Len(b) /\ SubSeq(b, 1, Len(a)) = a
Ops == [i \in 1..Len(calls) |-> calls[i].op]
NumCalls(op) == Cardinality({ i \in 1..Len(calls) : calls[i].op = op })
MyRecords == { i \in 1..Len(store) : store[i].req = "this" }

\* nothing outside the handler went wrong: the token verifies, the upload is
\* readable, every call made returned, every response obtained carries text,
\* the transcript has two tokens, the insert (if made) succeeded
NoFailure ==
    /\ token.kind = "valid"
    /\ raised # Exception("file.read")
    /\ transcription_response.kind # "raised"
    /\ transcription_response.kind # "none" =>
          /\ HasText(transcription_response)
          /\ NumTokens(TextOf(transcription_response)) >= 2
    /\ summarization_response.kind # "raised"
    /\ summarization_response.kind # "none" => HasText(summarization_response)
    /\ insert_result # "error"

\* C1 (as claimed): a request with a verifying token, a valid transcript and
\* no failing external call ends with status 200 and a NON-EMPTY
\* structured_summary, and exactly one record is inserted, with the user's id.
C1_NonEmptySummary ==
    (Terminal /\ NoFailure) =>
        /\ response.status = 200
        /\ response.kind = "structured_summary"
        /\ response.structured_summary # <<>>
        /\ Cardinality(MyRecords) = 1
        /\ \A i \in MyRecords : store[i].user_id = token.user

\* C1 (amended): such a request ends with status 200 and a structured_summary
\* equal to the text extracted from the summarization response (which may be
\* empty: the summary is not validated), and exactly one record is inserted,
\* with the user's id.
C1_SuccessResponse ==
    (Terminal /\ NoFailure) =>
        /\ response.status = 200
        /\ response.kind = "structured_summary"
        /\ response.structured_summary = TextOf(summarization_response)
        /\ Cardinality(MyRecords) = 1
        /\ \A i \in MyRecords : store[i].user_id = token.user

C1_Witness ==
    /\ pc = "Responded"
    /\ NoFailure
    /\ response.status = 200
    /\ response.structured_summary = <<>>
    /\ Cardinality(MyRecords) = 1

\* C2 (as claimed): a request whose token is missing, invalid, or whose
\* verification raises is answered 401, with no AI call and no insert.
C2_Unauthenticated401 ==
    (Terminal /\ token.kind # "valid") =>
        /\ response.status = 401
        /\ calls = <<>>
        /\ MyRecords = {}

\* C3: an authenticated request whose extracted transcript is empty or has
\* fewer than two whitespace-delimited tokens is answered 400; no
\* summarization call is issued and no insert attempted.
C3_ShortTranscript400 ==
    ( /\ pc \notin { "Received", "Authenticated", "TranscriptionReturned" }
      /\ HasText(transcription_response)
      /\ NumTokens(TextOf(transcription_response)) < 2 ) =>
        /\ pc = "Errored"
        /\ response.status = 400
        /\ response.kind = "detail"
        /\ NumCalls("summarize") = 0
        /\ NumCalls("insert") = 0
        /\ MyRecords = {}

C3_Witness ==
    /\ pc = "Errored"
    /\ response.status = 400
    /\ transcription_response.kind = "no_text"
    /\ NumTokens(original_transcript) = 1
    /\ Len(Fragments(transcription_response)) = 2

\* C4: in both stages, a response without direct text but with fragments
\* yields the fragments' texts concatenated in the order returned; a response
\* with neither fails the stage and the request ends with a 500.
C4_FragmentFallback ==
    /\ ( /\ pc \notin { "Received", "Authenticated", "TranscriptionReturned" }
         /\ transcription_response.kind = "no_text" ) =>
            IF Fragments(transcription_response) # <<>>
            THEN original_transcript = Concat(Fragments(transcription_response))
            ELSE pc = "Errored" /\ response.status = 500
    /\ ( /\ pc # "SummarizationReturned"
         /\ summarization_response.kind = "no_text" ) =>
            IF Fragments(summarization_response) # <<>>
            THEN structured_summary = Concat(Fragments(summarization_response))
            ELSE pc = "Errored" /\ response.status = 500

C4_Witness ==
    /\ pc = "Responded"
    /\ transcription_response.kind = "no_text"
    /\ summarization_response.kind = "no_text"
    /\ Fragments(summarization_response) = << <<"b", " ">>, <<"a">> >>
    /\ response.structured_summary = <<"b", " ", "a">>

\* C5: when the insert fails after both AI stages succeeded the response is
\* a 500 error body without the summary, and a 200 is only ever sent for a
\* request whose insert succeeded.
C5_InsertFailure ==
    /\ insert_result = "error" =>
          /\ pc = "Errored"
          /\ response.status = 500
          /\ response.kind = "detail"
          /\ response.structured_summary = <<>>
          /\ MyRecords = {}
    /\ response.status = 200 =>
          /\ insert_result = "ok"
          /\ Cardinality(MyRecords) = 1

C5_Witness ==
    /\ insert_result = "error"
    /\ pc = "Errored"
    /\ structured_summary # <<>>
    /\ response.status = 500

\* the states of the orchestrator, in order
Stage ==
    CASE pc = "Received" -> 0
      [] pc \in { "Authenticated", "TranscriptionReturned" } -> 1
      [] pc \in { "Transcribed", "SummarizationReturned" } -> 2
      [] pc = "Summarized" -> 3
      [] pc = "Persisted" -> 4
      [] pc = "Responded" -> 5
      [] OTHER -> 6

StageStep ==
    \/ Stage' = Stage /\ ~Terminal'
    \/ Stage <= 4 /\ Stage' = Stage + 1
    \/ Stage <= 4 /\ Stage' = 6
    \/ Terminal /\ pc' = pc /\ calls' = calls /\ response' = response
                /\ MyRecords' = MyRecords

StageOrder ==
    /\ IsPrefix(Ops, <<"transcribe", "summarize", "insert">>)
    /\ NumCalls("transcribe") > 0 => Stage >= 1 /\ user_id = token.user
    /\ NumCalls("summarize") > 0 =>
          /\ Stage >= 2
          /\ HasText(transcription_response)
          /\ original_transcript = TextOf(transcription_response)
          /\ NumTokens(original_transcript) >= 2
    /\ NumCalls("insert") > 0 =>
          /\ Stage >= 3
          /\ HasText(summarization_response)
          /\ structured_summary = TextOf(summarization_response)
    /\ MyRecords # {} => NumCalls("insert") > 0 /\ Stage >= 4
    /\ response.status = 200 => pc = "Responded" /\ insert_result = "ok"
    /\ pc = "Errored" <=> response.kind = "detail"

\* C6: a request passes Received, Authenticated, Transcribed, Summarized,
\* Persisted, Responded in that order, one at a time; each call is issued
\* only after the stage before it completed; a failure leads directly to
\* Errored, after which no stage runs.
C6_LinearStages == []StageOrder /\ [][StageStep]_vars

C6_Witness ==
    /\ pc = "Responded"
    /\ Ops = <<"transcribe", "summarize", "insert">>
    /\ others = 0

\* C7 (as claimed): HTTP-shaped errors of the stages reach the client
\* unchanged, every other exception becomes a 500, and every error response
\* has status 400, 401 or 500, 400 only from the transcript validation and
\* 401 only from the auth gate.
C7_ErrorStatuses ==
    pc = "Errored" =>
        /\ raised.type = "HTTPException" =>
              response.status = raised.status /\ response.detail = raised.detail
        /\ raised.type = "Exception" => response.status = 500
        /\ response.status \in { 400, 401, 500 }
        /\ response.status = 400 => raised = HTTPException(400, SilentAudio)
        /\ response.status = 401 => raised = NoExc /\ calls = <<>>

\* the type mimetypes infers from a file name
Inferred(name) == guess_type(name)

\* C8 (as claimed): the media type sent is the declared content type if
\* present, else the type inferred from the filename, else (nothing
\* inferable, INCLUDING an absent filename) application/octet-stream.
C8_OctetWhenNoFilename ==
    calls # <<>> =>
        calls[1].arg =
            IF Truthy(file.content_type) THEN file.content_type
            ELSE IF Truthy(file.filename) /\ Inferred(file.filename) # NULL
                 THEN Inferred(file.filename)
                 ELSE OctetStream

\* C8 (amended): the media type sent is the declared content type if
\* present; else, for an absent or empty filename, the type inferred from
\* the default name audio.webm; else the type inferred from the filename;
\* else application/octet-stream.
C8_MediaType ==
    calls # <<>> =>
        /\ calls[1].op = "transcribe"
        /\ calls[1].arg = mime_type
        /\ mime_type =
            IF Truthy(file.content_type) THEN file.content_type
            ELSE IF ~Truthy(file.filename) THEN S("video/webm")
            ELSE IF Inferred(file.filename) # NULL THEN Inferred(file.filename)
            ELSE OctetStream

C8_Witness ==
    /\ calls # <<>>
    /\ ~Truthy(file.content_type)
    /\ ~Truthy(file.filename)
    /\ calls[1].arg = S("video/webm")

\* C9: over one request the handler issues at most one transcription call,
\* one summarization call and one insert, and no stored record is ever
\* updated or deleted.
C9_NoRetry ==
    /\ [](/\ NumCalls("transcribe") <= 1
          /\ NumCalls("summarize") <= 1
          /\ NumCalls("insert") <= 1
          /\ Cardinality(MyRecords) <= NumCalls("insert"))
    /\ [][IsPrefix(store, store')]_vars

C9_Witness ==
    /\ Terminal
    /\ Len(store) = 2
    /\ store[1].req = "other"
    /\ store[2].req = "this"
    /\ Len(calls) = 3

\* C10: on a 200 the summary in the body is the structured_summary of the
\* record inserted for the request, whose original_transcript is the
\* validated transcript and whose client_name is the client's label or null.
C10_StoredEqualsShown ==
    response.status = 200 =>
        /\ Cardinality(MyRecords) = 1
        /\ \A i \in MyRecords :
              /\ store[i].structured_summary = response.structured_summary
              /\ store[i].original_transcript = TextOf(transcription_response)
              /\ NumTokens(store[i].original_transcript) >= 2
              /\ store[i].client_name = client_name
              /\ store[i].user_id = token.user

C10_Witness ==
    /\ response.status = 200
    /\ client_name = NULL
    /\ \E i \in MyRecords :
          /\ store[i].client_name = NULL
          /\ store[i].structured_summary # store[i].original_transcript
          /\ store[i].structured_summary # <<>>

====
